---- MODULE Spec2Model ----
(***************************************************************************)
(* Model of trainers/pt_trainer.py: PtTrainer.train and                    *)
(* PtTrainer.validate_and_save run by world_size worker processes          *)
(* (mp.spawn), one per rank, that meet at the collective operations of     *)
(* torch.distributed (barrier, all_gather, the gradient all-reduce of      *)
(* DistributedDataParallel).                                               *)
(*                                                                         *)
(* Losses are floats in the program; the model keeps them as integers      *)
(* scaled by 100 (0.85 is 85): only their order and equality are used.     *)
(***************************************************************************)
EXTENDS Integers, Sequences, FiniteSets, TLC

\* ------------------------------------------------------------ bounds
MaxWorld == 2
MaxEpochs == 4
MaxPatience == 1
MaxAccum == 4
MaxTrain == 8

\* getattr(should_stop_early, "best", None): no best score recorded yet
None == 0 - 1

VARIABLES
    args,          \* the run configuration (self.args and the fields __init__ copies)
    data,          \* the datasets: n_train samples, and the losses a validation pass can yield
    pc,            \* pc[rank]: where the worker is in train / validate_and_save
    epoch,         \* epoch[rank]: the loop variable of train
    idx,           \* idx[rank]: the step index of the training loop
    grad,          \* grad[rank]: what the parameters' .grad holds
    applied,       \* applied[rank]: the optimizer.step() calls of the current epoch
    local_loss,    \* local_loss[rank]: metric_logger.return_total_loss of the validation pass
    valid_loss,    \* valid_loss[rank]: local of validate_and_save
    prev_best,     \* prev_best[rank]: local of validate_and_save
    should_stop,   \* should_stop[rank]: local of validate_and_save / train
    best,          \* best[rank]: should_stop_early.best of that process
    num_runs,      \* num_runs[rank]: should_stop_early.num_runs of that process
    colls,         \* colls[rank]: the collective operations the worker has called, in order
    destroyed,     \* destroyed[rank]: how often the worker called destroy_process_group
    ckpt,          \* the file {exp_name}_{save_prefix}_best.pt
    writes,        \* history: the torch.save calls, in order
    sync_log,      \* history: per step of the current epoch, did backward synchronize
    step_log,      \* history: per step of the current epoch, did the optimizer step
    stop_log,      \* history: should_stop returned by validate_and_save, per epoch
    loss_log       \* history: the validation loss fed to should_stop_early, per epoch

cfgvars == <<args, data>>
trainvars == <<idx, grad, applied, sync_log, step_log>>
stopvars == <<local_loss, valid_loss, prev_best, should_stop, best, num_runs, stop_log, loss_log>>
filevars == <<ckpt, writes>>
vars == <<args, data, pc, epoch, idx, grad, applied, local_loss, valid_loss, prev_best,
          should_stop, best, num_runs, colls, destroyed, ckpt, writes, sync_log,
          step_log, stop_log, loss_log>>

\* mp.spawn(self.train, nprocs=world_size): one process per rank
AllRanks == 0 .. (MaxWorld - 1)
Ranks == 0 .. (args.world_size - 1)

\* ------------------------------------------------------------ helpers
\* self.MASTER = (rank == world_size - 1)
MASTER(rank) == rank = args.world_size - 1

\* self.start_epoch = 0
start_epoch == 0

CeilDiv(a, b) == (a + b - 1) \div b

\* Variant: no split drops the remainder
drop_last_never(split) == FALSE

\* drop_last = {'train': True, 'valid': False}
drop_last(split) == split = "train"

\* DistributedSampler.num_samples for a dataset of m samples over n replicas
NumSamples(m, n, drop) ==
    IF drop /\ m % n # 0 THEN CeilDiv(m - n, n) ELSE CeilDiv(m, n)

\* DistributedSampler.__iter__, before the slice: the sample at each of the
\* total_size = num_samples * n positions. With drop_last the tail of the dataset is
\* cut off; without, the list is padded with its own head. (The seeded shuffle
\* permutes the samples and changes neither the positions nor their number.)
SamplerIndices(m, n, drop) ==
    [p \in 1 .. (NumSamples(m, n, drop) * n) |-> (p - 1) % m]

\* indices[rank:total_size:num_replicas]: the positions of the rank's shard
ShardPositions(m, n, drop, rank) ==
    {p \in DOMAIN SamplerIndices(m, n, drop) : (p - 1) % n = rank}

\* The samples of the rank's training shard (get_dataloader('train', rank, world_size))
TrainShard(rank) ==
    LET drop == drop_last("train")
        ix == SamplerIndices(data.n_train, args.world_size, drop)
    IN {ix[p] : p \in ShardPositions(data.n_train, args.world_size, drop, rank)}

\* len(self.train_loader): DataLoader(batch_size=train_bsz) over the rank's shard
TrainSteps(rank) ==
    CeilDiv(Cardinality(ShardPositions(data.n_train, args.world_size,
                                       drop_last("train"), rank)), args.train_bsz)

\* Variant: the synchronizing step taken one step late
NoSync_offByOne(i) == i % args.accumulation # 0

\* grad_sync = self.model.no_sync if (idx + 1) % self.accumulation != 0 else nullcontext
NoSync(i) == (i + 1) % args.accumulation # 0

\* if (idx+1) % self.accumulation == 0: optimizer.step(); optimizer.zero_grad()
StepsOptimizer(i) == (i + 1) % args.accumulation = 0

\* Variant: the patience override left out
SuppressStop_missing(stop) == stop

\* if self.patience == 0: should_stop = False
SuppressStop(stop) == IF args.patience = 0 THEN FALSE ELSE stop

\* Variant: a checkpoint in every epoch
SaveCond_always(pb, vl) == TRUE

\* if (prev_best is None) or (prev_best == valid_loss): torch.save(...)
SaveCond(pb, vl) == pb = None \/ pb = vl

\* Variant: the stop flag ignored
LoopBreak_epochOnly(stop, e) == e = args.n_epochs

\* if should_stop or epoch == self.n_epochs: break
LoopBreak(stop, e) == stop \/ e = args.n_epochs

\* should_stop_early(patience, valid_loss, 'lower') of utils.trainer_utils, with the
\* state it keeps on itself: the new best and num_runs, and the value it returns
ShouldStopEarly(p, vl, b, n) ==
    IF b = None \/ vl < b
      THEN [best |-> vl, num_runs |-> 0, stop |-> FALSE]
      ELSE [best |-> b, num_runs |-> n + 1, stop |-> (n + 1) > p]

RECURSIVE SumUpTo(_, _)
SumUpTo(f, r) == IF r < 0 THEN 0 ELSE f[r] + SumUpTo(f, r - 1)

\* all_gather_list + all_gather_stats + return_log_dict_for_ddp: every worker gets
\* every worker's losses, in rank order, and takes their mean
ReduceGlobal(contrib) == SumUpTo(contrib, args.world_size - 1) \div args.world_size

\* A collective completes on a worker once every worker has called the same one.
Complete(w) ==
    LET k == Len(colls[w]) IN
    k > 0 => \A u \in Ranks : Len(colls[u]) >= k /\ colls[u][k] = colls[w][k]

Call(w, kind) == [colls EXCEPT ![w] = Append(@, kind)]

\* ------------------------------------------------------------ initial states
\* save_dir holds no checkpoint file yet
NoFile == [epochs |-> None, complete |-> FALSE]

Workers0 ==
    /\ pc = [r \in Ranks |-> "init"]
    /\ epoch = [r \in Ranks |-> start_epoch]
    /\ idx = [r \in Ranks |-> 0]
    /\ grad = [r \in Ranks |-> [cur |-> 0, old |-> 0, synced |-> TRUE]]
    /\ applied = [r \in Ranks |-> <<>>]
    /\ local_loss = [r \in Ranks |-> None]
    /\ valid_loss = [r \in Ranks |-> None]
    /\ prev_best = [r \in Ranks |-> None]
    /\ should_stop = [r \in Ranks |-> FALSE]
    /\ best = [r \in Ranks |-> None]
    /\ num_runs = [r \in Ranks |-> 0]
    /\ colls = [r \in Ranks |-> <<>>]
    /\ destroyed = [r \in Ranks |-> 0]
    /\ ckpt = NoFile
    /\ writes = <<>>
    /\ sync_log = [r \in Ranks |-> <<>>]
    /\ step_log = [r \in Ranks |-> <<>>]
    /\ stop_log = [r \in Ranks |-> <<>>]
    /\ loss_log = [r \in Ranks |-> <<>>]

\* The losses a validation pass can yield (0.80, 0.90)
LossVals == {80, 90}

\* The run of five epochs with validation losses 0.9, 0.8, 0.85, 0.86, 0.87
RunLosses == <<90, 80, 85, 86, 87>>

Range(s) == {s[i] : i \in 1 .. Len(s)}

\* Every world size, epoch count and patience; one step per batch, no accumulation.
Init ==
    /\ args \in [world_size : 1 .. MaxWorld,
                 n_epochs : 0 .. MaxEpochs,
                 patience : 0 .. MaxPatience,
                 accumulation : {1},
                 train_bsz : {1},
                 load_from_pretrained : {FALSE}]
    /\ data \in [n_train : {MaxWorld + 1}, losses : {LossVals}]
    /\ Workers0

\* Every accumulation factor, dataset size and batch size; two epochs, one loss.
InitAccum ==
    /\ args \in [world_size : 1 .. MaxWorld,
                 n_epochs : {2},
                 patience : {1},
                 accumulation : 1 .. MaxAccum,
                 train_bsz : {1, 2},
                 load_from_pretrained : {FALSE}]
    /\ data \in [n_train : 0 .. MaxTrain, losses : {{80}}]
    /\ Workers0

\* One worker, patience 2, five or six epochs, losses among those of RunLosses.
InitRun ==
    /\ args \in [world_size : {1},
                 n_epochs : {Len(RunLosses), Len(RunLosses) + 1},
                 patience : {2},
                 accumulation : {1},
                 train_bsz : {1},
                 load_from_pretrained : {FALSE}]
    /\ data \in [n_train : {1}, losses : {Range(RunLosses)}]
    /\ Workers0

\* Runs started with the resume-from-checkpoint option set.
InitResume ==
    /\ args \in [world_size : 1 .. MaxWorld,
                 n_epochs : 0 .. 2,
                 patience : {0, 1},
                 accumulation : {1},
                 train_bsz : {1},
                 load_from_pretrained : {TRUE}]
    /\ data \in [n_train : {MaxWorld + 1}, losses : {LossVals}]
    /\ Workers0

\* Every world size and epoch count, early stopping off or at patience 1.
InitFair ==
    /\ args \in [world_size : 1 .. MaxWorld,
                 n_epochs : 0 .. MaxEpochs,
                 patience : {0, 1},
                 accumulation : {1},
                 train_bsz : {1},
                 load_from_pretrained : {FALSE}]
    /\ data \in [n_train : {MaxWorld + 1}, losses : {LossVals}]
    /\ Workers0

\* ------------------------------------------------------------ train
\* train, up to the epoch loop: build the model and the optimizer, setup, set_device,
\* define_dataloader. load_pretrained is not called (the call is commented out).
Setup(w) ==
    /\ w \in Ranks
    /\ pc[w] = "init"
    /\ pc' = [pc EXCEPT ![w] = "loop"]
    /\ UNCHANGED <<cfgvars, epoch, trainvars, stopvars, colls, destroyed, filevars>>

\* for epoch in range(self.start_epoch+1, self.n_epochs+1): the next epoch, or the
\* end of the range
ForEpoch(w) ==
    /\ w \in Ranks
    /\ pc[w] = "loop"
    /\ IF epoch[w] + 1 <= args.n_epochs
         THEN /\ epoch' = [epoch EXCEPT ![w] = @ + 1]
              /\ idx' = [idx EXCEPT ![w] = 0]
              /\ grad' = [grad EXCEPT ![w] = [cur |-> 0, old |-> @.cur + @.old,
                                              synced |-> @.synced]]
              /\ applied' = [applied EXCEPT ![w] = <<>>]
              /\ sync_log' = [sync_log EXCEPT ![w] = <<>>]
              /\ step_log' = [step_log EXCEPT ![w] = <<>>]
              /\ pc' = [pc EXCEPT ![w] = "train"]
         ELSE /\ pc' = [pc EXCEPT ![w] = "cleanup"]
              /\ UNCHANGED <<epoch, trainvars>>
    /\ UNCHANGED <<cfgvars, stopvars, colls, destroyed, filevars>>

\* optimizer.step(); optimizer.zero_grad(set_to_none=True), when the step's turn
AfterBackward(w, g) ==
    IF StepsOptimizer(idx[w])
      THEN /\ applied' = [applied EXCEPT ![w] = Append(@, g)]
           /\ grad' = [grad EXCEPT ![w] = [cur |-> 0, old |-> 0, synced |-> TRUE]]
           /\ step_log' = [step_log EXCEPT ![w] = Append(@, TRUE)]
      ELSE /\ grad' = [grad EXCEPT ![w] = g]
           /\ step_log' = [step_log EXCEPT ![w] = Append(@, FALSE)]
           /\ UNCHANGED applied

\* One pass of the training loop: forward, loss.backward() under grad_sync. Under
\* no_sync the gradient is accumulated locally; otherwise backward all-reduces it,
\* and the worker waits for the other workers' all-reduce.
TrainStep(w) ==
    /\ w \in Ranks
    /\ pc[w] = "train"
    /\ idx[w] < TrainSteps(w)
    /\ LET g == [cur |-> grad[w].cur + 1, old |-> grad[w].old, synced |-> FALSE] IN
       IF NoSync(idx[w])
         THEN /\ sync_log' = [sync_log EXCEPT ![w] = Append(@, FALSE)]
              /\ AfterBackward(w, g)
              /\ idx' = [idx EXCEPT ![w] = @ + 1]
              /\ UNCHANGED <<pc, colls>>
         ELSE /\ sync_log' = [sync_log EXCEPT ![w] = Append(@, TRUE)]
              /\ grad' = [grad EXCEPT ![w] = g]
              /\ colls' = Call(w, "allreduce")
              /\ pc' = [pc EXCEPT ![w] = "allreduce"]
              /\ UNCHANGED <<idx, applied, step_log>>
    /\ UNCHANGED <<cfgvars, epoch, stopvars, destroyed, filevars>>

\* The all-reduce is done: the gradient is the workers' average; then the rest of
\* the pass.
Reduced(w) ==
    /\ w \in Ranks
    /\ pc[w] = "allreduce"
    /\ Complete(w)
    /\ AfterBackward(w, [grad[w] EXCEPT !.synced = TRUE])
    /\ idx' = [idx EXCEPT ![w] = @ + 1]
    /\ pc' = [pc EXCEPT ![w] = "train"]
    /\ UNCHANGED <<cfgvars, epoch, sync_log, stopvars, colls, destroyed, filevars>>

\* Variant: the training loop followed by no barrier and no all_gather
TrainBarrier_skipped(w) ==
    /\ w \in Ranks
    /\ pc[w] = "train"
    /\ idx[w] = TrainSteps(w)
    /\ pc' = [pc EXCEPT ![w] = "train_gather"]
    /\ UNCHANGED <<cfgvars, epoch, trainvars, stopvars, colls, destroyed, filevars>>

\* The training loop is over: dist.barrier()
TrainBarrier(w) ==
    /\ w \in Ranks
    /\ pc[w] = "train"
    /\ idx[w] = TrainSteps(w)
    /\ colls' = Call(w, "barrier")
    /\ pc' = [pc EXCEPT ![w] = "train_barrier"]
    /\ UNCHANGED <<cfgvars, epoch, trainvars, stopvars, destroyed, filevars>>

\* Variant: the training losses gathered under "if self.MASTER"
TrainGather_masterOnly(w) ==
    /\ w \in Ranks
    /\ pc[w] = "train_barrier"
    /\ Complete(w)
    /\ colls' = IF MASTER(w) THEN Call(w, "all_gather") ELSE colls
    /\ pc' = [pc EXCEPT ![w] = "train_gather"]
    /\ UNCHANGED <<cfgvars, epoch, trainvars, stopvars, destroyed, filevars>>

\* loss_list = self.get_logger_list(loss_list, world_size, 'loss'): all_gather
TrainGather(w) ==
    /\ w \in Ranks
    /\ pc[w] = "train_barrier"
    /\ Complete(w)
    /\ colls' = Call(w, "all_gather")
    /\ pc' = [pc EXCEPT ![w] = "train_gather"]
    /\ UNCHANGED <<cfgvars, epoch, trainvars, stopvars, destroyed, filevars>>

\* ------------------------------------------------------------ validate
\* validate, up to its barrier: the pass over the rank's validation shard, whose
\* loss is whatever the data yields; then dist.barrier()
Validate(w) ==
    /\ w \in Ranks
    /\ pc[w] = "train_gather"
    /\ Complete(w)
    /\ \E l \in data.losses : local_loss' = [local_loss EXCEPT ![w] = l]
    /\ colls' = Call(w, "barrier")
    /\ pc' = [pc EXCEPT ![w] = "valid_barrier"]
    /\ UNCHANGED <<cfgvars, epoch, trainvars, valid_loss, prev_best, should_stop, best,
                   num_runs, stop_log, loss_log, destroyed, filevars>>

\* loss_list = self.get_logger_list(loss_list, world_size, 'loss'): all_gather
ValidGather(w) ==
    /\ w \in Ranks
    /\ pc[w] = "valid_barrier"
    /\ Complete(w)
    /\ colls' = Call(w, "all_gather")
    /\ pc' = [pc EXCEPT ![w] = "valid_gather"]
    /\ UNCHANGED <<cfgvars, epoch, trainvars, stopvars, destroyed, filevars>>

\* ------------------------------------------------------------ validate_and_save
\* Variant: the rank's own validation loss fed to should_stop_early
Decide_localLoss(w) ==
    /\ w \in Ranks
    /\ pc[w] = "valid_gather"
    /\ Complete(w)
    /\ LET vl == local_loss[w]
           r == ShouldStopEarly(args.patience, vl, best[w], num_runs[w])
           stop == SuppressStop(FALSE \/ r.stop)
       IN /\ valid_loss' = [valid_loss EXCEPT ![w] = vl]
          /\ best' = [best EXCEPT ![w] = r.best]
          /\ num_runs' = [num_runs EXCEPT ![w] = r.num_runs]
          /\ prev_best' = [prev_best EXCEPT ![w] = r.best]
          /\ should_stop' = [should_stop EXCEPT ![w] = stop]
          /\ loss_log' = [loss_log EXCEPT ![w] = Append(@, vl)]
    /\ colls' = Call(w, "barrier")
    /\ pc' = [pc EXCEPT ![w] = "save_barrier"]
    /\ UNCHANGED <<cfgvars, epoch, trainvars, local_loss, stop_log, destroyed, filevars>>

\* validate returns the reduced loss; should_stop_early; prev_best; the patience
\* override; dist.barrier()
Decide(w) ==
    /\ w \in Ranks
    /\ pc[w] = "valid_gather"
    /\ Complete(w)
    /\ LET vl == ReduceGlobal(local_loss)
           r == ShouldStopEarly(args.patience, vl, best[w], num_runs[w])
           stop == SuppressStop(FALSE \/ r.stop)
       IN /\ valid_loss' = [valid_loss EXCEPT ![w] = vl]
          /\ best' = [best EXCEPT ![w] = r.best]
          /\ num_runs' = [num_runs EXCEPT ![w] = r.num_runs]
          /\ prev_best' = [prev_best EXCEPT ![w] = r.best]
          /\ should_stop' = [should_stop EXCEPT ![w] = stop]
          /\ loss_log' = [loss_log EXCEPT ![w] = Append(@, vl)]
    /\ colls' = Call(w, "barrier")
    /\ pc' = [pc EXCEPT ![w] = "save_barrier"]
    /\ UNCHANGED <<cfgvars, epoch, trainvars, local_loss, stop_log, destroyed, filevars>>

\* Variant: the checkpoint written without waiting at the barrier
SaveOrSkip_noBarrier(w) ==
    /\ w \in Ranks
    /\ pc[w] = "save_barrier"
    /\ IF MASTER(w) /\ SaveCond(prev_best[w], valid_loss[w])
         THEN /\ ckpt' = [epochs |-> epoch[w], complete |-> FALSE]
              /\ writes' = Append(writes, [epoch |-> epoch[w], rank |-> w])
              /\ pc' = [pc EXCEPT ![w] = "saving"]
              /\ UNCHANGED stop_log
         ELSE /\ stop_log' = [stop_log EXCEPT ![w] = Append(@, should_stop[w])]
              /\ pc' = [pc EXCEPT ![w] = "returned"]
              /\ UNCHANGED filevars
    /\ UNCHANGED <<cfgvars, epoch, trainvars, local_loss, valid_loss, prev_best,
                   should_stop, best, num_runs, loss_log, colls, destroyed>>

\* After the barrier: the coordinator starts torch.save when SaveCond holds; every
\* other path returns should_stop at once.
SaveOrSkip(w) ==
    /\ w \in Ranks
    /\ pc[w] = "save_barrier"
    /\ Complete(w)
    /\ IF MASTER(w) /\ SaveCond(prev_best[w], valid_loss[w])
         THEN /\ ckpt' = [epochs |-> epoch[w], complete |-> FALSE]
              /\ writes' = Append(writes, [epoch |-> epoch[w], rank |-> w])
              /\ pc' = [pc EXCEPT ![w] = "saving"]
              /\ UNCHANGED stop_log
         ELSE /\ stop_log' = [stop_log EXCEPT ![w] = Append(@, should_stop[w])]
              /\ pc' = [pc EXCEPT ![w] = "returned"]
              /\ UNCHANGED filevars
    /\ UNCHANGED <<cfgvars, epoch, trainvars, local_loss, valid_loss, prev_best,
                   should_stop, best, num_runs, loss_log, colls, destroyed>>

\* torch.save has written the file; return should_stop
Saved(w) ==
    /\ w \in Ranks
    /\ pc[w] = "saving"
    /\ ckpt' = [ckpt EXCEPT !.complete = TRUE]
    /\ stop_log' = [stop_log EXCEPT ![w] = Append(@, should_stop[w])]
    /\ pc' = [pc EXCEPT ![w] = "returned"]
    /\ UNCHANGED <<cfgvars, epoch, trainvars, local_loss, valid_loss, prev_best,
                   should_stop, best, num_runs, loss_log, colls, destroyed, writes>>

\* if should_stop or epoch == self.n_epochs: break
EpochEnd(w) ==
    /\ w \in Ranks
    /\ pc[w] = "returned"
    /\ pc' = [pc EXCEPT ![w] = IF LoopBreak(should_stop[w], epoch[w])
                                 THEN "cleanup" ELSE "loop"]
    /\ UNCHANGED <<cfgvars, epoch, trainvars, stopvars, colls, destroyed, filevars>>

\* Variant: no cleanup when the loop was left by the stop flag
Cleanup_notOnEarlyStop(w) ==
    /\ w \in Ranks
    /\ pc[w] = "cleanup"
    /\ destroyed' = [destroyed EXCEPT ![w] = IF should_stop[w] THEN @ ELSE @ + 1]
    /\ pc' = [pc EXCEPT ![w] = "exit"]
    /\ UNCHANGED <<cfgvars, epoch, trainvars, stopvars, colls, filevars>>

\* self.cleanup(): dist.destroy_process_group()
Cleanup(w) ==
    /\ w \in Ranks
    /\ pc[w] = "cleanup"
    /\ destroyed' = [destroyed EXCEPT ![w] = @ + 1]
    /\ pc' = [pc EXCEPT ![w] = "exit"]
    /\ UNCHANGED <<cfgvars, epoch, trainvars, stopvars, colls, filevars>>

\* sys.exit('Deliberately ending system, because all the process is over.')
Exit(w) ==
    /\ w \in Ranks
    /\ pc[w] = "exit"
    /\ pc' = [pc EXCEPT ![w] = "exited"]
    /\ UNCHANGED <<cfgvars, epoch, trainvars, stopvars, colls, destroyed, filevars>>

\* What the process of rank w can do next
Step(w) ==
        \/ Setup(w)
        \/ ForEpoch(w)
        \/ TrainStep(w)
        \/ Reduced(w)
        \/ TrainBarrier(w)
        \/ TrainGather(w)
        \/ Validate(w)
        \/ ValidGather(w)
        \/ Decide(w)
        \/ SaveOrSkip(w)
        \/ Saved(w)
        \/ EpochEnd(w)
        \/ Cleanup(w)
        \/ Exit(w)

Next == \E w \in AllRanks : Step(w)

Spec == Init /\ [][Next]_vars
SpecAccum == InitAccum /\ [][Next]_vars
SpecRun == InitRun /\ [][Next]_vars
SpecResume == InitResume /\ [][Next]_vars

\* No process crashes or hangs: each one goes on as long as it can take a step.
SpecFair == InitFair /\ [][Next]_vars /\ \A w \in AllRanks : WF_vars(Step(w))

\* ------------------------------------------------------------ properties
Coordinator == args.world_size - 1
Left(w) == pc[w] \in {"cleanup", "exit", "exited"}
IsPrefix(s, t) == Len(s) <= Len(t) /\ \A i \in 1 .. Len(s) : s[i] = t[i]
WriteEpochs == [i \in 1 .. Len(writes) |-> writes[i].epoch]

\* C1: every checkpoint write is made by rank world_size - 1, in an epoch whose
\* reduced validation loss is <= the loss of every earlier epoch, whatever the
\* patience.
C1_CheckpointOnlyOnBest ==
    \A i \in 1 .. Len(writes) :
        /\ writes[i].rank = Coordinator
        /\ writes[i].epoch <= Len(loss_log[Coordinator])
        /\ \A j \in 1 .. (writes[i].epoch - 1) :
               loss_log[Coordinator][writes[i].epoch] <= loss_log[Coordinator][j]

\* Two workers; the coordinator has written in the first epoch and in a later one,
\* and has skipped the write in another epoch.
C1_Witness ==
    /\ args.world_size = 2
    /\ Len(writes) >= 2
    /\ Len(stop_log[Coordinator]) > Len(writes)
    /\ pc[Coordinator] = "exited"

\* C2: with patience 0, validate_and_save returns should_stop = false in every
\* epoch, and a worker leaves the epoch loop only with epoch = n_epochs.
C2_PatienceZeroNeverStops ==
    args.patience = 0 =>
        \A w \in Ranks :
            /\ should_stop[w] = FALSE
            /\ \A i \in 1 .. Len(stop_log[w]) : stop_log[w][i] = FALSE
            /\ Left(w) => epoch[w] = args.n_epochs

\* Patience 0, three non-improving epochs in a row, and the worker has left the loop.
C2_Witness ==
    /\ args.patience = 0
    /\ \E w \in Ranks : num_runs[w] >= 3 /\ pc[w] = "exited"

\* C3: patience 2 and losses 0.9, 0.8, 0.85, 0.86, 0.87: should_stop is false in
\* epochs 1 to 4 and true in epoch 5, and the loop is left in epoch 5, not earlier
\* and not later.
C3_StopsAtFifthEpoch ==
    \A w \in Ranks :
        /\ \A n \in 1 .. Len(stop_log[w]) :
               IsPrefix(SubSeq(loss_log[w], 1, n), RunLosses) =>
                   stop_log[w][n] = (n = Len(RunLosses))
        /\ IsPrefix(loss_log[w], RunLosses) /\ Left(w) => epoch[w] = Len(RunLosses)
        /\ IsPrefix(RunLosses, loss_log[w]) => epoch[w] = Len(RunLosses)

\* The run of the five losses is over, with a sixth epoch configured.
C3_Witness ==
    /\ args.n_epochs = Len(RunLosses) + 1
    /\ args.patience = 2
    /\ \E w \in Ranks : loss_log[w] = RunLosses /\ pc[w] = "exited"

\* C4 as claimed: in that run the only checkpoint write is the one of epoch 2.
C4_OneWriteAtEpochTwo ==
    (loss_log[Coordinator] = RunLosses /\ Len(stop_log[Coordinator]) = Len(RunLosses))
        => WriteEpochs = <<2>>

\* C4: in that run the checkpoint is written in epoch 1 (no best recorded before)
\* and in epoch 2, and in no other epoch.
C4_WritesAtEpochsOneAndTwo ==
    IsPrefix(loss_log[Coordinator], RunLosses) =>
        /\ IsPrefix(WriteEpochs, <<1, 2>>)
        /\ Len(stop_log[Coordinator]) >= 1 => Len(writes) >= 1
        /\ Len(stop_log[Coordinator]) >= 2 => Len(writes) = 2

\* The five epochs of the run are over.
C4_Witness ==
    /\ loss_log[Coordinator] = RunLosses
    /\ Len(stop_log[Coordinator]) = Len(RunLosses)
    /\ Len(writes) = 2
\* The worker is past the training loop of its current epoch.
PastLoop(w) ==
    pc[w] \in {"train_barrier", "train_gather", "valid_barrier", "valid_gather",
               "save_barrier", "saving", "returned"}

\* C5: step idx synchronizes exactly when (idx+1) mod K = 0, the optimizer steps and
\* resets the gradient exactly on the synchronizing steps, K = 4 gives the flags
\* F,F,F,T,F,F,F,T, and an epoch of S steps makes floor(S/K) updates.
C5_SyncEveryKthStep ==
    \A w \in Ranks :
        /\ \A i \in 1 .. Len(sync_log[w]) :
               sync_log[w][i] = (i % args.accumulation = 0)
        /\ \A i \in 1 .. Len(step_log[w]) : step_log[w][i] = sync_log[w][i]
        /\ \A i \in 1 .. Len(applied[w]) : applied[w][i].synced
        /\ (Len(step_log[w]) > 0 /\ Len(step_log[w]) = Len(sync_log[w])
                /\ step_log[w][Len(step_log[w])])
               => (grad[w].cur = 0 /\ grad[w].old = 0)
        /\ (args.accumulation = 4 /\ Len(sync_log[w]) >= 8)
               => SubSeq(sync_log[w], 1, 8) =
                      <<FALSE, FALSE, FALSE, TRUE, FALSE, FALSE, FALSE, TRUE>>
        /\ PastLoop(w) => Len(applied[w]) = Len(sync_log[w]) \div args.accumulation

\* K = 4 and an epoch of eight steps is over.
C5_Witness ==
    \E w \in Ranks :
        /\ args.accumulation = 4
        /\ Len(sync_log[w]) = 8
        /\ Len(applied[w]) = 2
        /\ pc[w] = "train_barrier"

\* C6 as claimed: when the training loop of an epoch ends, at the barrier, no
\* accumulated gradient is left unapplied.
C6_PartialGroupFlushed ==
    \A w \in Ranks : pc[w] = "train_barrier" => grad[w].cur + grad[w].old = 0

\* The collectives of one epoch, the gradient all-reduces apart.
EpochCollectives == <<"barrier", "all_gather", "barrier", "all_gather", "barrier">>

RECURSIVE WithoutAllReduce(_)
WithoutAllReduce(s) ==
    IF s = <<>> THEN <<>>
    ELSE IF Head(s) = "allreduce" THEN WithoutAllReduce(Tail(s))
    ELSE <<Head(s)>> \o WithoutAllReduce(Tail(s))

Blocked(w) ==
    /\ pc[w] \in {"allreduce", "train_barrier", "train_gather", "valid_barrier",
                  "valid_gather", "save_barrier"}
    /\ ~Complete(w)

\* C7: all workers call the same collectives in the same order, five per epoch
\* (barrier, all_gather, barrier, all_gather, barrier) besides the all-reduces; a
\* worker waiting in a collective waits only for workers that are still in the
\* loop, and some worker can always take a step until all have exited.
C7_SameCollectivesNoDeadlock ==
    /\ \A w, u \in Ranks :
           \A k \in 1 .. Len(colls[w]) : k <= Len(colls[u]) => colls[w][k] = colls[u][k]
    /\ \A w \in Ranks :
           LET c == WithoutAllReduce(colls[w]) IN
           /\ \A k \in 1 .. Len(c) : c[k] = EpochCollectives[((k - 1) % 5) + 1]
           /\ pc[w] = "returned" => Len(c) = 5 * epoch[w]
    /\ \A w, u \in Ranks :
           (Blocked(w) /\ Len(colls[u]) < Len(colls[w])) => ~Left(u) /\ ~Blocked(u)
    /\ (\E w \in Ranks : pc[w] # "exited") => ENABLED Next

\* Two workers have been through two epochs and one is still waiting for the other.
C7_Witness ==
    /\ args.world_size = 2
    /\ \E w \in Ranks : epoch[w] = 2 /\ pc[w] = "save_barrier" /\ Blocked(w)

\* C8: a worker destroys the process group once, with no collective of its own
\* pending, on every way out of the loop; it exits only after that, and calls no
\* collective afterwards.
C8_DestroyOnceAfterLastCollective ==
    /\ [](\A w \in Ranks :
              /\ destroyed[w] = (IF pc[w] \in {"exit", "exited"} THEN 1 ELSE 0)
              /\ destroyed[w] = 1 => Complete(w))
    /\ [][\A w \in Ranks : destroyed[w] = 1 =>
              (colls'[w] = colls[w] /\ destroyed'[w] = 1)]_vars

\* A worker that left the loop by the stop flag, before the last epoch, has exited.
C8_Witness ==
    \E w \in Ranks :
        /\ pc[w] = "exited"
        /\ should_stop[w]
        /\ epoch[w] < args.n_epochs
        /\ destroyed[w] = 1

\* C9 as claimed: with load_from_pretrained set, no worker gets to a training step.
C9_ResumeRaisesBeforeTraining ==
    args.load_from_pretrained =>
        \A w \in Ranks : epoch[w] = start_epoch /\ Len(sync_log[w]) = 0

\* C10: the workers' training shards have the same size and share no sample, the
\* n_train mod world_size samples of the remainder are in no shard, and the workers
\* end the training loop of an epoch after the same number of steps and of
\* gradient synchronizations.
C10_EqualTrainShards ==
    \A w, u \in Ranks :
        /\ Cardinality(TrainShard(w)) = Cardinality(TrainShard(u))
        /\ TrainSteps(w) = TrainSteps(u)
        /\ w # u => TrainShard(w) \cap TrainShard(u) = {}
        /\ Cardinality(TrainShard(w)) * args.world_size
               = data.n_train - (data.n_train % args.world_size)
        /\ (PastLoop(w) /\ PastLoop(u) /\ epoch[w] = epoch[u]) =>
               /\ Len(sync_log[w]) = Len(sync_log[u])
               /\ Len(applied[w]) = Len(applied[u])
               /\ Len(sync_log[w]) = TrainSteps(w)

\* Two workers, an odd number of samples, both at the end of a training loop of
\* at least two steps.
C10_Witness ==
    /\ args.world_size = 2
    /\ data.n_train % 2 = 1
    /\ \A w \in Ranks : pc[w] = "train_barrier" /\ idx[w] >= 2 /\ Len(applied[w]) >= 1
\* Epoch i of the losses s is strictly better than every epoch before it.
NewBest(s, i) == \A j \in 1 .. (i - 1) : s[i] < s[j]

\* Epoch i of the losses s is strictly worse than some epoch before it.
Worse(s, i) == \E j \in 1 .. (i - 1) : s[i] > s[j]

\* The number of epochs since the last strictly better one.
SinceBest(s) ==
    Len(s) - (CHOOSE i \in 1 .. Len(s) :
                  NewBest(s, i) /\ \A k \in (i + 1) .. Len(s) : ~NewBest(s, k))

\* C11 as claimed: an epoch whose loss is not strictly better than the best so far,
\* a loss equal to the best included, counts as non-improving and has no
\* checkpoint write.
C11_NoWriteUnlessStrictlyBetter ==
    LET s == loss_log[Coordinator] IN
    /\ Len(s) >= 1 => num_runs[Coordinator] = SinceBest(s)
    /\ \A e \in 1 .. Len(stop_log[Coordinator]) :
           ~NewBest(s, e) => e \notin Range(WriteEpochs)

\* C11: an epoch whose loss is not strictly better than the best so far counts as
\* non-improving; it has no checkpoint write when the loss is strictly worse than
\* the best, and has one when the loss equals the best.
C11_NoWriteWhenWorse ==
    LET s == loss_log[Coordinator] IN
    /\ Len(s) >= 1 => num_runs[Coordinator] = SinceBest(s)
    /\ \A e \in 1 .. Len(stop_log[Coordinator]) :
           /\ Worse(s, e) => e \notin Range(WriteEpochs)
           /\ ~Worse(s, e) => e \in Range(WriteEpochs)

\* The coordinator has been through an epoch with a loss equal to the best and an
\* epoch with a worse loss, the counter at 2.
C11_Witness ==
    LET s == loss_log[Coordinator] IN
    /\ args.world_size = 2
    /\ Len(stop_log[Coordinator]) = 3
    /\ s[2] = s[1] /\ s[3] > s[1]
    /\ num_runs[Coordinator] = 2
    /\ WriteEpochs = <<1, 2>>
\* C12 as claimed: only the coordinator evaluates the early-stopping rule and keeps
\* a best score and a patience counter.
C12_OnlyCoordinatorDecides ==
    \A w \in Ranks :
        w # Coordinator =>
            (loss_log[w] = <<>> /\ best[w] = None /\ num_runs[w] = 0)

\* The epochs whose training loop the worker has ended.
TrainedEpochs(w) ==
    IF pc[w] \in {"train", "allreduce"} THEN epoch[w] - 1 ELSE epoch[w]

\* The epochs whose validation pass the worker has begun.
ValidatedEpochs(w) ==
    IF pc[w] \in {"train", "allreduce", "train_barrier", "train_gather"}
      THEN epoch[w] - 1 ELSE epoch[w]

\* C13: a worker begins the validation pass of an epoch only after every worker
\* has ended the training loop of that epoch.
C13_ValidationAfterAllTrained ==
    \A w, u \in Ranks : ValidatedEpochs(w) <= TrainedEpochs(u)

\* One of two workers has done the validation pass of the second epoch, the other
\* has ended the training loop and not yet begun its validation pass.
C13_Witness ==
    /\ args.world_size = 2
    /\ \E w, u \in Ranks :
           /\ epoch[w] = 2 /\ pc[w] = "valid_barrier"
           /\ epoch[u] = 2 /\ pc[u] = "train_gather"

\* C14: a checkpoint write of an epoch has begun only if every worker has been
\* through the validation all_gather and the stop decision of that epoch.
C14_WriteAfterDecisionBarrier ==
    /\ \A i \in 1 .. Len(writes) :
           \A u \in Ranks : Len(loss_log[u]) >= writes[i].epoch
    /\ \A w \in Ranks :
           pc[w] = "saving" =>
               \A u \in Ranks :
                   /\ epoch[u] >= epoch[w]
                   /\ epoch[u] = epoch[w] => pc[u] \in {"save_barrier", "saving", "returned",
                                                        "loop", "cleanup", "exit", "exited"}

\* The coordinator of two workers is writing the checkpoint of the second epoch.
C14_Witness ==
    /\ args.world_size = 2
    /\ pc[Coordinator] = "saving"
    /\ epoch[Coordinator] = 2
    /\ pc[0] = "save_barrier"

\* C15 as claimed: while the coordinator writes the checkpoint of an epoch, no
\* worker has begun the next epoch or destroyed the process group.
C15_NoWorkerPastTheWrite ==
    pc[Coordinator] = "saving" =>
        \A u \in Ranks : epoch[u] = epoch[Coordinator] /\ destroyed[u] = 0
\* C16: with no crash and every worker going on, every worker exits; the epoch
\* index goes up by one from start_epoch + 1 and never beyond n_epochs, every epoch
\* before the one the loop is left in has should_stop false and is not n_epochs,
\* and the loop is left in the first epoch with should_stop true or epoch = n_epochs.
C16_TrainingTerminates ==
    /\ <>(\A w \in Ranks : pc[w] = "exited")
    /\ [](\A w \in Ranks :
              /\ epoch[w] >= start_epoch
              /\ epoch[w] - start_epoch <= args.n_epochs - start_epoch \/ epoch[w] = start_epoch
              /\ Len(stop_log[w]) \in {epoch[w], epoch[w] - 1}
              /\ \A i \in 1 .. (Len(stop_log[w]) - 1) :
                     ~stop_log[w][i] /\ i # args.n_epochs
              /\ (pc[w] = "loop" /\ epoch[w] > start_epoch) =>
                     (~should_stop[w] /\ epoch[w] < args.n_epochs)
              /\ (Left(w) /\ epoch[w] > start_epoch) =>
                     (stop_log[w][epoch[w]] \/ epoch[w] = args.n_epochs))
    /\ [][\A w \in Ranks : epoch'[w] = epoch[w] \/ epoch'[w] = epoch[w] + 1]_vars

\* Two workers have exited, having left the loop by the stop flag before the last
\* epoch.
C16_Witness ==
    /\ args.world_size = 2
    /\ \A w \in Ranks :
           pc[w] = "exited" /\ should_stop[w] /\ epoch[w] < args.n_epochs
Min2(a, b) == IF a < b THEN a ELSE b

\* C17: every worker feeds the loss reduced over all workers to should_stop_early,
\* so the workers' losses and stop flags agree epoch by epoch, they leave the loop
\* in the same epoch, and none begins an epoch after another has left the loop.
C17_SameDecisionOnAllWorkers ==
    \A w, u \in Ranks :
        /\ pc[w] = "save_barrier" => valid_loss[w] = ReduceGlobal(local_loss)
        /\ \A e \in 1 .. Min2(Len(loss_log[w]), Len(loss_log[u])) :
               loss_log[w][e] = loss_log[u][e]
        /\ \A e \in 1 .. Min2(Len(stop_log[w]), Len(stop_log[u])) :
               stop_log[w][e] = stop_log[u][e]
        /\ (pc[w] \in {"returned", "loop"} /\ pc[u] \in {"returned", "loop"}
                /\ epoch[w] = epoch[u]) => should_stop[w] = should_stop[u]
        /\ Left(u) => epoch[w] <= epoch[u]
        /\ (Left(w) /\ Left(u)) => epoch[w] = epoch[u]

\* Two workers with different losses on their own validation shards have both left
\* the loop by the stop flag, before the last epoch.
C17_Witness ==
    /\ args.world_size = 2
    /\ local_loss[0] # local_loss[1]
    /\ \A w \in Ranks : Left(w) /\ should_stop[w] /\ epoch[w] < args.n_epochs
\* C18: every optimizer update applies exactly K backward passes, all of the current
\* epoch, and the accumulated gradient is empty when an epoch's training loop begins.
\* (Violated: the gradient left by the last S mod K steps of an epoch is neither
\* applied nor cleared, and the first update of the next epoch applies it.)
C18_UpdatesOfOneEpochOnly ==
    \A w \in Ranks :
        /\ \A i \in 1 .. Len(applied[w]) :
               applied[w][i].cur = args.accumulation /\ applied[w][i].old = 0
        /\ (pc[w] = "train" /\ idx[w] = 0) => grad[w].cur + grad[w].old = 0

RECURSIVE MinUpTo(_, _)
MinUpTo(s, n) == IF n = 1 THEN s[1] ELSE Min2(s[n], MinUpTo(s, n - 1))

\* C19: once the coordinator has returned from the checkpoint decision of an epoch
\* E >= 1, the one file at the 'best' path is completely written and the epoch it
\* records has the least reduced validation loss of epochs 1..E.
C19_BestCheckpointHoldsMinimum ==
    LET c == Coordinator
        E == Len(stop_log[c])
    IN (E >= 1 /\ pc[c] # "saving") =>
           /\ Len(writes) >= 1
           /\ ckpt.complete
           /\ ckpt.epochs = writes[Len(writes)].epoch
           /\ ckpt.epochs \in 1 .. E
           /\ loss_log[c][ckpt.epochs] = MinUpTo(loss_log[c], E)

\* Three decisions made, the file written twice, and the last epoch not the best.
C19_Witness ==
    LET c == Coordinator IN
        /\ args.world_size = 2
        /\ pc[c] = "returned"
        /\ Len(stop_log[c]) >= 3
        /\ Len(writes) >= 2
        /\ ckpt.epochs < Len(stop_log[c])
        /\ loss_log[c][Len(stop_log[c])] > loss_log[c][ckpt.epochs]

====
